---- MODULE Spec2Model ----
(***************************************************************************)
(* The volume transition controller of src/app/functionality.py            *)
(* (class VolumeController) as a state machine.                            *)
(*                                                                         *)
(* Levels are integers in thousandths: 1.0 is Scale, 0.16 is 160.  The     *)
(* confidence is a percentage (0..100 and beyond), the reduction factor is *)
(* in thousandths.  Three kinds of thread run: the main (GUI) thread,      *)
(* which calls update_classification, restore_volume and                   *)
(* set_volume_reduction one after the other; the monitor thread started by *)
(* the constructor; one fade thread per transition that was started.  The  *)
(* threads share the controller's fields without a lock, so every          *)
(* statement that reads or writes a shared field is a step of its own.     *)
(*                                                                         *)
(* The consensus engine of src/app/basketball_classifier_app.py (class     *)
(* BasketballClassifierApp) runs on the main thread.  A sample's           *)
(* confidence is in hundredths (0.9 is 90); weights are in hundredths and  *)
(* their products are kept exact; a normalized confidence is the fraction  *)
(* num / den, a percentage.                                                *)
(***************************************************************************)
EXTENDS Integers, Sequences, FiniteSets, TLC

VARIABLES
    device,                  \* the level of the audio endpoint (external)
    original_volume,
    target_volume,
    current_volume,
    user_basketball_volume,
    volume_reduction_factor,
    is_basketball,
    is_transitioning,
    running,
    fade_thread,             \* index in fades of self.fade_thread, 0 = None
    fades,                   \* the fade threads started so far, in order
    mon,                     \* the monitor thread: pc and locals
    main,                    \* the main thread: pc, arguments and locals
    nAdjust,                 \* user adjustments of the device so far
    nFail,                   \* failed device reads and writes so far
    lim,                     \* the limits of this run, fixed by Init
    app                      \* the fields of BasketballClassifierApp

vars == <<device, original_volume, target_volume, current_volume,
          user_basketball_volume, volume_reduction_factor, is_basketball,
          is_transitioning, running, fade_thread, fades, mon, main,
          nAdjust, nFail, lim, app>>

----------------------------------------------------------------------------
(* Bounds of the model *)

\* fade threads started in one run
MaxFades == 2
\* steps of one fade (the code's default for fade_steps is 20; the loop is
\* the same for every number of steps)
FadeSteps == 3
\* user adjustments of the device level in one run
MaxAdjust == 1
\* device reads and writes that fail in one run
MaxFail == 1
\* results of run_inference that wait for the main thread at one time
MaxInference == 2

(* Program constants *)

\* the level 1.0
Scale == 1000
\* 0.01, the threshold of lines 81 and 170
Epsilon == 10
\* volume_reduction_factor = 0.2
DefaultReduction == 200

\* HISTORY_SIZE = 4
HISTORY_SIZE == 4

(* Inputs *)

InitLevels == {800}
UserLevels == {300}
Confidences == {40, 100, 150}
ReductionInputs == {200, 1500}
\* pred_value of run_inference, in hundredths
Predictions == {0, 10, 20, 50, 60, 90, 100}
\* the pred_values of the runs in which the controller is at work
AppPredictions == {10, 90}

----------------------------------------------------------------------------
(* Pure helpers *)

Min(a, b) == IF a < b THEN a ELSE b
Max(a, b) == IF a > b THEN a ELSE b
Abs(a) == IF a < 0 THEN -a ELSE a

\* set_volume, line 57: max(0.0, min(1.0, level))
Clamp(level) == Max(0, Min(Scale, level))

\* get_volume, lines 46-51: the device's level, or 1.0 when the read fails
GetVolume(ok) == IF ok THEN device ELSE Scale

\* np.linspace(start_vol, end_vol, steps)[k], line 102
Linspace(start_vol, end_vol, steps, k) ==
    IF steps = 1 THEN start_vol
    ELSE start_vol + ((end_vol - start_vol) * k) \div (steps - 1)

\* line 144: min(1.0, confidence / 100.0), as a percentage
ConfidenceFactor(confidence) == Min(100, confidence)

\* line 165: user_basketball_volume * volume_reduction_factor * confidence_factor
ReducedVolume(ubv, factor, cf) == (ubv * factor * cf) \div (Scale * 100)

\* line 166: max(reduced_volume, user_basketball_volume * 0.1)
FloorTarget(reduced, ubv) == Max(reduced, ubv \div 10)

\* line 121 with the comparison inverted
SameClassificationInverted(cur, new) == cur # new

\* line 121: the classification has not changed
SameClassification(cur, new) == cur = new

\* line 208 without the clamp
ReductionValueUnclamped(x) == x

\* line 208: max(0.0, min(1.0, reduction_factor))
ReductionValue(x) == Max(0, Min(Scale, x))

\* lines 107 and 113 without the test of running
FadeGoesOnAlways(run) == TRUE

\* lines 107 and 113: the fade goes on while running is set
FadeGoesOn(run) == run

\* line 114 writing start_vol in place of end_vol
FinalLevelStart(f) == f.start_vol

\* line 114: the level of the last write of a fade
FinalLevel(f) == f.end_vol

----------------------------------------------------------------------------
(* Thread records *)

IdleMain == [pc |-> "idle", is_basketball |-> FALSE, confidence |-> 0,
             current_system_volume |-> 0, prev_state |-> FALSE,
             reduced_volume |-> 0]

DoneFade == [pc |-> "done", start_vol |-> 0, end_vol |-> 0, k |-> 0, late |-> 0]

NewFade(s, e) == [pc |-> "new", start_vol |-> s, end_vol |-> e, k |-> 0, late |-> 0]

FadeIds == 1..Len(fades)

\* threading.Thread.is_alive(): started and not yet returned
IsAlive(i) == i \in FadeIds /\ fades[i].pc # "done"

AllFadesDone == \A i \in FadeIds : fades[i].pc = "done"

\* set_volume with line 59 placed before the device call of line 58: the
\* level is stored even when the write fails
SetVolumeStoresFirst(level, ok) ==
    /\ ok \/ nFail < lim.fail
    /\ current_volume' = Clamp(level)
    /\ IF ok
       THEN /\ device' = Clamp(level)
            /\ UNCHANGED nFail
       ELSE /\ UNCHANGED device
            /\ nFail' = nFail + 1

\* set_volume, lines 53-63: a successful write sets the device and
\* current_volume to the clamped level; a failed one changes nothing
SetVolume(level, ok) ==
    /\ ok \/ nFail < lim.fail
    /\ IF ok
       THEN /\ device' = Clamp(level)
            /\ current_volume' = Clamp(level)
            /\ UNCHANGED nFail
       ELSE /\ UNCHANGED <<device, current_volume>>
            /\ nFail' = nFail + 1

----------------------------------------------------------------------------
(* The consensus engine: calculate_consensus and get_confidence_trend of    *)
(* src/app/basketball_classifier_app.py                                     *)

\* run_inference, lines 605-607 and 611-616: the sample update_prediction
\* receives for a pred_value
Sample(pred_value) == [is_basketball |-> pred_value > 50, confidence |-> pred_value]

Samples == {Sample(p) : p \in Predictions}

\* consensus_prediction: None, True or False
Label(b) == IF b THEN "True" ELSE "False"

\* a fraction num / den with den > 0
Fraction(n, d) == [num |-> n, den |-> d]

\* a > b for fractions that are not negative, by their whole parts and
\* then the reciprocals of their remainders (no product is formed, so the
\* comparison is exact for every size of num and den)
RECURSIVE Greater(_, _)
Greater(a, b) ==
    LET qa == a.num \div a.den
        qb == b.num \div b.den
        ra == a.num % a.den
        rb == b.num % b.den
    IN  IF qa # qb THEN qa > qb
        ELSE IF ra = 0 THEN FALSE
        ELSE IF rb = 0 THEN TRUE
        ELSE Greater(Fraction(b.den, rb), Fraction(a.den, ra))

\* a = b for fractions
SameValue(a, b) == ~Greater(a, b) /\ ~Greater(b, a)

\* the whole percents of a fraction
Percent(a) == a.num \div a.den

\* line 384 taking a history of one sample for an empty one
EmptyHistoryOrSingle(h) == Len(h) <= 1

\* line 384: not self.prediction_history
EmptyHistory(h) == h = <<>>

\* line 394 with the same weight for every position
RecencyWeightFlat(i) == 100

\* line 394: max(0.5, 1.0 - 0.15 * i), in hundredths
RecencyWeight(i) == Max(50, 100 - 15 * i)

\* lines 403-406: 0.5 + abs(conf - 0.5) * 2, in hundredths
ConfidenceWeight(conf) == 50 + Abs(conf - 50) * 2

\* line 409 with the newest sample counted three times
CombinedWeightNewestTripled(i, conf) ==
    (IF i = 0 THEN 3 ELSE 1) * RecencyWeight(i) * ConfidenceWeight(conf)

\* line 409: recency_weights[i] * confidence_weight
CombinedWeight(i, conf) == RecencyWeight(i) * ConfidenceWeight(conf)

\* line 416 taking conf in place of 1.0 - conf
ClassShareRaw(sample) == sample.confidence

\* lines 413 and 416: what a sample adds to its class's confidence per unit
\* of weight, conf for a positive sample and 1.0 - conf for a negative one
ClassShare(sample) ==
    IF sample.is_basketball THEN sample.confidence ELSE 100 - sample.confidence

\* lines 401-417: effective_bb_count (cls TRUE) or effective_not_bb_count
\* (cls FALSE) over the first n entries
RECURSIVE EffectiveCount(_, _, _)
EffectiveCount(h, n, cls) ==
    IF n = 0 THEN 0
    ELSE EffectiveCount(h, n - 1, cls)
         + (IF h[n].is_basketball = cls
            THEN CombinedWeight(n - 1, h[n].confidence) ELSE 0)

\* lines 401-417: basketball_confidence (cls TRUE) or
\* not_basketball_confidence (cls FALSE) before it is normalized
RECURSIVE ConfidenceSum(_, _, _)
ConfidenceSum(h, n, cls) ==
    IF n = 0 THEN 0
    ELSE ConfidenceSum(h, n - 1, cls)
         + (IF h[n].is_basketball = cls
            THEN CombinedWeight(n - 1, h[n].confidence) * ClassShare(h[n])
            ELSE 0)

\* lines 419-422 without the division
ClassConfidenceUnnormalized(h, cls) == Fraction(ConfidenceSum(h, Len(h), cls), 1)

\* lines 419-422, times the 100 of the return statements: the class's
\* normalized confidence as a percentage, 0 when the class has no weight
ClassConfidence(h, cls) ==
    IF EffectiveCount(h, Len(h), cls) > 0
    THEN Fraction(ConfidenceSum(h, Len(h), cls), EffectiveCount(h, Len(h), cls))
    ELSE Fraction(0, 1)

\* lines 425 and 427 without the factor 1.1
ExceedsAtAll(a, b) == a > b

\* lines 425 and 427: a > b * 1.1
ExceedsByTenth(a, b) == 10 * a > 11 * b

\* calculate_consensus, lines 382-434
CalculateConsensus(h) ==
    IF EmptyHistory(h)
    THEN [prediction |-> "None", confidence |-> Fraction(0, 1)]
    ELSE LET effective_bb_count == EffectiveCount(h, Len(h), TRUE)
             effective_not_bb_count == EffectiveCount(h, Len(h), FALSE)
             basketball_confidence == ClassConfidence(h, TRUE)
             not_basketball_confidence == ClassConfidence(h, FALSE)
         IN  IF ExceedsByTenth(effective_bb_count, effective_not_bb_count)
             THEN [prediction |-> "True", confidence |-> basketball_confidence]
             ELSE IF ExceedsByTenth(effective_not_bb_count, effective_bb_count)
             THEN [prediction |-> "False", confidence |-> not_basketball_confidence]
             ELSE IF Greater(basketball_confidence, not_basketball_confidence)
             THEN [prediction |-> "True", confidence |-> basketball_confidence]
             ELSE [prediction |-> "False", confidence |-> not_basketball_confidence]

\* lines 446-449 taking conf for every sample
RelativeConfidenceRaw(sample, is_consensus) == sample.confidence

\* lines 446-449: conf when the sample's label is the consensus, else 1.0 - conf
RelativeConfidence(sample, is_consensus) ==
    IF Label(sample.is_basketball) = is_consensus
    THEN sample.confidence ELSE 100 - sample.confidence

\* get_confidence_trend, lines 436-461
GetConfidenceTrend(h, is_consensus) ==
    IF Len(h) < 2 THEN "stable"
    ELSE LET diff == RelativeConfidence(h[1], is_consensus)
                     - RelativeConfidence(h[2], is_consensus)
         IN  IF Abs(diff) < 5 THEN "stable"
             ELSE IF diff > 0 THEN "increasing" ELSE "decreasing"

\* line 644: insert(0, ...)
Insert(h, sample) == <<sample>> \o h

\* lines 647-648 keeping the last HISTORY_SIZE entries
TrimKeepsOldest(h) ==
    IF Len(h) > HISTORY_SIZE
    THEN SubSeq(h, Len(h) - HISTORY_SIZE + 1, Len(h)) ELSE h

\* lines 647-648: prediction_history[:HISTORY_SIZE]
Trim(h) == IF Len(h) > HISTORY_SIZE THEN SubSeq(h, 1, HISTORY_SIZE) ELSE h

\* BasketballClassifierApp.__init__, lines 52-69, with the model loaded.
\* inference counts the run_inference threads at work, queue holds the
\* update_prediction calls they have queued for the main thread;
\* confidence_trend is the indicator shown in consensus_label, "none" while
\* the label shows none; overlay_prediction and overlay_confidence are the
\* texts of the overlay's labels.
AppInit == [running |-> FALSE,
            volume_control_enabled |-> TRUE,
            overlay_mode |-> FALSE,
            prediction_history |-> <<>>,
            consensus_prediction |-> "None",
            consensus_confidence |-> Fraction(0, 1),
            confidence_trend |-> "none",
            inference |-> 0,
            queue |-> <<>>,
            overlay_prediction |-> "None",
            overlay_confidence |-> Fraction(0, 1)]

----------------------------------------------------------------------------
(* __init__, lines 13-42: the state after construction *)

InitWith(l) ==
    /\ lim = l
    /\ device \in InitLevels
    /\ \E ok \in BOOLEAN :
          /\ ok \/ l.fail > 0
          /\ original_volume = GetVolume(ok)
          /\ nFail = IF ok THEN 0 ELSE 1
    /\ target_volume = original_volume
    /\ current_volume = original_volume
    /\ user_basketball_volume = original_volume
    /\ volume_reduction_factor = DefaultReduction
    /\ is_basketball = TRUE
    /\ is_transitioning = FALSE
    /\ running = TRUE
    /\ fade_thread = 0
    /\ fades = <<>>
    /\ mon = [pc |-> "init", last_checked_volume |-> 0, current_vol |-> 0]
    /\ main = IdleMain
    /\ nAdjust = 0
    /\ app = AppInit

\* Two kinds of run are explored: runs in which fades overlap and nothing
\* outside the program interferes, and runs in which the user adjusts the
\* level and device calls fail while one fade fewer is started.
Overlap == [fades |-> MaxFades, adjust |-> 0, fail |-> 0,
            inference |-> 0, predictions |-> {}]
Disturbed == [fades |-> MaxFades - 1, adjust |-> MaxAdjust, fail |-> MaxFail,
              inference |-> 0, predictions |-> {}]

Init == InitWith(Overlap) \/ InitWith(Disturbed)

----------------------------------------------------------------------------
(* The user changes the device level from outside the program *)

UserAdjust ==
    /\ nAdjust < lim.adjust
    /\ \E v \in UserLevels : v # device /\ device' = v
    /\ nAdjust' = nAdjust + 1
    /\ UNCHANGED <<original_volume, target_volume, current_volume,
                   user_basketball_volume, volume_reduction_factor,
                   is_basketball, is_transitioning, running, fade_thread,
                   fades, mon, main, nFail>>
    /\ UNCHANGED <<lim, app>>

----------------------------------------------------------------------------
(* monitor_volume, lines 71-95 *)

\* line 73
MonitorInit ==
    /\ mon.pc = "init"
    /\ mon' = [mon EXCEPT !.pc = "loop", !.last_checked_volume = current_volume]
    /\ UNCHANGED <<device, original_volume, target_volume, current_volume,
                   user_basketball_volume, volume_reduction_factor,
                   is_basketball, is_transitioning, running, fade_thread,
                   fades, main, nAdjust, nFail>>
    /\ UNCHANGED <<lim, app>>

\* line 75: while self.running
MonitorLoop ==
    /\ mon.pc = "loop"
    /\ mon' = [mon EXCEPT !.pc = IF running THEN "test" ELSE "done"]
    /\ UNCHANGED <<device, original_volume, target_volume, current_volume,
                   user_basketball_volume, volume_reduction_factor,
                   is_basketball, is_transitioning, running, fade_thread,
                   fades, main, nAdjust, nFail>>
    /\ UNCHANGED <<lim, app>>

\* line 77; the sleep of line 95 leads back to line 75
MonitorTest ==
    /\ mon.pc = "test"
    /\ mon' = [mon EXCEPT !.pc = IF is_basketball /\ ~is_transitioning
                                 THEN "read" ELSE "loop"]
    /\ UNCHANGED <<device, original_volume, target_volume, current_volume,
                   user_basketball_volume, volume_reduction_factor,
                   is_basketball, is_transitioning, running, fade_thread,
                   fades, main, nAdjust, nFail>>
    /\ UNCHANGED <<lim, app>>

\* line 78: current_vol = self.get_volume()
MonitorRead ==
    /\ mon.pc = "read"
    /\ \E ok \in BOOLEAN :
          /\ ok \/ nFail < lim.fail
          /\ mon' = [mon EXCEPT !.pc = "store", !.current_vol = GetVolume(ok)]
          /\ nFail' = IF ok THEN nFail ELSE nFail + 1
    /\ UNCHANGED <<device, original_volume, target_volume, current_volume,
                   user_basketball_volume, volume_reduction_factor,
                   is_basketball, is_transitioning, running, fade_thread,
                   fades, main, nAdjust>>
    /\ UNCHANGED <<lim, app>>

\* lines 81-92 storing the level in original_volume as well
MonitorStoreOriginal ==
    /\ mon.pc = "store"
    /\ user_basketball_volume' = mon.current_vol
    /\ original_volume' = mon.current_vol
    /\ current_volume' =
          IF Abs(mon.current_vol - mon.last_checked_volume) > Epsilon
          THEN mon.current_vol ELSE current_volume
    /\ mon' = [mon EXCEPT !.pc = "loop",
                          !.last_checked_volume = mon.current_vol,
                          !.current_vol = 0]
    /\ UNCHANGED <<device, target_volume,
                   volume_reduction_factor, is_basketball, is_transitioning,
                   running, fade_thread, fades, main, nAdjust, nFail>>
    /\ UNCHANGED <<lim, app>>

\* lines 81-92: every write is of the local current_vol
MonitorStore ==
    /\ mon.pc = "store"
    /\ user_basketball_volume' = mon.current_vol
    /\ current_volume' =
          IF Abs(mon.current_vol - mon.last_checked_volume) > Epsilon
          THEN mon.current_vol ELSE current_volume
    /\ mon' = [mon EXCEPT !.pc = "loop",
                          !.last_checked_volume = mon.current_vol,
                          !.current_vol = 0]
    /\ UNCHANGED <<device, original_volume, target_volume,
                   volume_reduction_factor, is_basketball, is_transitioning,
                   running, fade_thread, fades, main, nAdjust, nFail>>
    /\ UNCHANGED <<lim, app>>

Monitor == MonitorInit \/ MonitorLoop \/ MonitorTest \/ MonitorRead \/ MonitorStore

----------------------------------------------------------------------------
(* fade_volume, lines 97-116, run by fade thread i *)

\* line 99
FadeBegin(i) ==
    /\ fades[i].pc = "new"
    /\ is_transitioning' = TRUE
    /\ fades' = [fades EXCEPT ![i].pc = "loop"]
    /\ UNCHANGED <<device, original_volume, target_volume, current_volume,
                   user_basketball_volume, volume_reduction_factor,
                   is_basketball, running, fade_thread, mon, main, nAdjust,
                   nFail>>
    /\ UNCHANGED <<lim, app>>

\* the loop without the test of line 107
FadeLoopUntested(i) ==
    /\ fades[i].pc = "loop"
    /\ fades' = [fades EXCEPT ![i].pc =
                    IF fades[i].k < FadeSteps THEN "write" ELSE "final"]
    /\ UNCHANGED <<device, original_volume, target_volume, current_volume,
                   user_basketball_volume, volume_reduction_factor,
                   is_basketball, is_transitioning, running, fade_thread,
                   mon, main, nAdjust, nFail>>
    /\ UNCHANGED <<lim, app>>

\* lines 106-108: the next element of volume_steps, and the test of running
FadeLoop(i) ==
    /\ fades[i].pc = "loop"
    /\ fades' = [fades EXCEPT ![i].pc =
                    IF fades[i].k < FadeSteps /\ FadeGoesOn(running)
                    THEN "write" ELSE "final"]
    /\ UNCHANGED <<device, original_volume, target_volume, current_volume,
                   user_basketball_volume, volume_reduction_factor,
                   is_basketball, is_transitioning, running, fade_thread,
                   mon, main, nAdjust, nFail>>
    /\ UNCHANGED <<lim, app>>

\* lines 109-110: set_volume(vol), then the sleep; after the last element
\* of volume_steps the loop ends and line 113 is next.  late counts the
\* writes this thread makes after running was cleared.
FadeWrite(i) ==
    /\ fades[i].pc = "write"
    /\ \E ok \in BOOLEAN :
          SetVolume(Linspace(fades[i].start_vol, fades[i].end_vol, FadeSteps,
                             fades[i].k), ok)
    /\ fades' = [fades EXCEPT ![i].pc = IF fades[i].k + 1 < FadeSteps
                                         THEN "loop" ELSE "final",
                              ![i].k = fades[i].k + 1,
                              ![i].late = fades[i].late + (IF running THEN 0 ELSE 1)]
    /\ UNCHANGED <<original_volume, target_volume, user_basketball_volume,
                   volume_reduction_factor, is_basketball, is_transitioning,
                   running, fade_thread, mon, main, nAdjust>>
    /\ UNCHANGED <<lim, app>>

\* line 113
FadeFinalTest(i) ==
    /\ fades[i].pc = "final"
    /\ fades' = [fades EXCEPT ![i].pc =
                    IF FadeGoesOn(running) THEN "finalwrite" ELSE "clear"]
    /\ UNCHANGED <<device, original_volume, target_volume, current_volume,
                   user_basketball_volume, volume_reduction_factor,
                   is_basketball, is_transitioning, running, fade_thread,
                   mon, main, nAdjust, nFail>>
    /\ UNCHANGED <<lim, app>>

\* line 114
FadeFinalWrite(i) ==
    /\ fades[i].pc = "finalwrite"
    /\ \E ok \in BOOLEAN : SetVolume(FinalLevel(fades[i]), ok)
    /\ fades' = [fades EXCEPT ![i].pc = "clear",
                              ![i].late = fades[i].late + (IF running THEN 0 ELSE 1)]
    /\ UNCHANGED <<original_volume, target_volume, user_basketball_volume,
                   volume_reduction_factor, is_basketball, is_transitioning,
                   running, fade_thread, mon, main, nAdjust>>
    /\ UNCHANGED <<lim, app>>

\* line 116, and the thread returns
FadeClear(i) ==
    /\ fades[i].pc = "clear"
    /\ is_transitioning' = FALSE
    /\ fades' = [fades EXCEPT ![i] = DoneFade]
    /\ UNCHANGED <<device, original_volume, target_volume, current_volume,
                   user_basketball_volume, volume_reduction_factor,
                   is_basketball, running, fade_thread, mon, main, nAdjust,
                   nFail>>
    /\ UNCHANGED <<lim, app>>

Fade(i) ==
    \/ FadeBegin(i) \/ FadeLoop(i) \/ FadeWrite(i)
    \/ FadeFinalTest(i) \/ FadeFinalWrite(i) \/ FadeClear(i)

----------------------------------------------------------------------------
(* update_classification, lines 118-188, on the main thread *)

\* the call and lines 121-122: is_basketball is written by the main thread
\* alone, so the test of line 121 sees the value the call was made with.  A
\* call that may need a fade thread is made while one is left.
UCCall ==
    /\ main.pc = "idle"
    /\ Len(fades) < lim.fades
    /\ \E b \in BOOLEAN, c \in Confidences :
          main' = IF SameClassification(is_basketball, b)
                  THEN [IdleMain EXCEPT !.pc = "uc_return", !.is_basketball = b]
                  ELSE [IdleMain EXCEPT !.pc = "uc_read", !.is_basketball = b,
                                        !.confidence = c]
    /\ UNCHANGED <<device, original_volume, target_volume, current_volume,
                   user_basketball_volume, volume_reduction_factor,
                   is_basketball, is_transitioning, running, fade_thread,
                   fades, mon, nAdjust, nFail>>
    /\ UNCHANGED <<lim, app>>

\* line 122: return
UCReturn ==
    /\ main.pc = "uc_return"
    /\ main' = IdleMain
    /\ UNCHANGED <<device, original_volume, target_volume, current_volume,
                   user_basketball_volume, volume_reduction_factor,
                   is_basketball, is_transitioning, running, fade_thread,
                   fades, mon, nAdjust, nFail>>
    /\ UNCHANGED <<lim, app>>

\* line 125
UCRead ==
    /\ main.pc = "uc_read"
    /\ \E ok \in BOOLEAN :
          /\ ok \/ nFail < lim.fail
          /\ main' = [main EXCEPT !.pc = "uc_state",
                                  !.current_system_volume = GetVolume(ok)]
          /\ nFail' = IF ok THEN nFail ELSE nFail + 1
    /\ UNCHANGED <<device, original_volume, target_volume, current_volume,
                   user_basketball_volume, volume_reduction_factor,
                   is_basketball, is_transitioning, running, fade_thread,
                   fades, mon, nAdjust>>
    /\ UNCHANGED <<lim, app>>

\* lines 140-141, and the branch of line 146
UCState ==
    /\ main.pc = "uc_state"
    /\ is_basketball' = main.is_basketball
    /\ main' = [main EXCEPT !.prev_state = is_basketball,
                            !.pc = IF main.is_basketball THEN "uc_restore"
                                   ELSE "uc_test"]
    /\ UNCHANGED <<device, original_volume, target_volume, current_volume,
                   user_basketball_volume, volume_reduction_factor,
                   is_transitioning, running, fade_thread, fades, mon,
                   nAdjust, nFail>>
    /\ UNCHANGED <<lim, app>>

\* lines 149-155
UCRestore ==
    /\ main.pc = "uc_restore"
    /\ target_volume' = IF ~main.prev_state THEN user_basketball_volume
                        ELSE main.current_system_volume
    /\ main' = [main EXCEPT !.pc = "uc_fade", !.confidence = 0]
    /\ UNCHANGED <<device, original_volume, current_volume,
                   user_basketball_volume, volume_reduction_factor,
                   is_basketball, is_transitioning, running, fade_thread,
                   fades, mon, nAdjust, nFail>>
    /\ UNCHANGED <<lim, app>>

\* line 159 with the test inverted
UCTestInverted ==
    /\ main.pc = "uc_test"
    /\ main' = [main EXCEPT !.pc = IF is_transitioning THEN "uc_save"
                                   ELSE "uc_reduce"]
    /\ UNCHANGED <<device, original_volume, target_volume, current_volume,
                   user_basketball_volume, volume_reduction_factor,
                   is_basketball, is_transitioning, running, fade_thread,
                   fades, mon, nAdjust, nFail>>
    /\ UNCHANGED <<lim, app>>

\* line 159
UCTest ==
    /\ main.pc = "uc_test"
    /\ main' = [main EXCEPT !.pc = IF ~is_transitioning THEN "uc_save"
                                   ELSE "uc_reduce"]
    /\ UNCHANGED <<device, original_volume, target_volume, current_volume,
                   user_basketball_volume, volume_reduction_factor,
                   is_basketball, is_transitioning, running, fade_thread,
                   fades, mon, nAdjust, nFail>>
    /\ UNCHANGED <<lim, app>>

\* line 160
UCSave ==
    /\ main.pc = "uc_save"
    /\ user_basketball_volume' = main.current_system_volume
    /\ main' = [main EXCEPT !.pc = "uc_reduce"]
    /\ UNCHANGED <<device, original_volume, target_volume, current_volume,
                   volume_reduction_factor, is_basketball, is_transitioning,
                   running, fade_thread, fades, mon, nAdjust, nFail>>
    /\ UNCHANGED <<lim, app>>

\* line 165
UCReduce ==
    /\ main.pc = "uc_reduce"
    /\ main' = [main EXCEPT !.pc = "uc_floor",
                            !.reduced_volume =
                                ReducedVolume(user_basketball_volume,
                                              volume_reduction_factor,
                                              ConfidenceFactor(main.confidence))]
    /\ UNCHANGED <<device, original_volume, target_volume, current_volume,
                   user_basketball_volume, volume_reduction_factor,
                   is_basketball, is_transitioning, running, fade_thread,
                   fades, mon, nAdjust, nFail>>
    /\ UNCHANGED <<lim, app>>

\* line 166
UCFloor ==
    /\ main.pc = "uc_floor"
    /\ target_volume' = FloorTarget(main.reduced_volume, user_basketball_volume)
    /\ main' = [main EXCEPT !.pc = "uc_fade", !.confidence = 0,
                            !.reduced_volume = 0]
    /\ UNCHANGED <<device, original_volume, current_volume,
                   user_basketball_volume, volume_reduction_factor,
                   is_basketball, is_transitioning, running, fade_thread,
                   fades, mon, nAdjust, nFail>>
    /\ UNCHANGED <<lim, app>>

\* lines 170-188 without the return of lines 170-172
UCFadeAlways ==
    /\ main.pc = "uc_fade"
    /\ fades' = Append(fades, NewFade(main.current_system_volume, target_volume))
    /\ fade_thread' = Len(fades) + 1
    /\ main' = IdleMain
    /\ UNCHANGED <<device, original_volume, target_volume, current_volume,
                   user_basketball_volume, volume_reduction_factor,
                   is_basketball, is_transitioning, running, mon, nAdjust,
                   nFail>>
    /\ UNCHANGED <<lim, app>>

\* lines 170-188: return when the target is the current level, else start a
\* fade thread from the level read at line 125 to the target
UCFade ==
    /\ main.pc = "uc_fade"
    /\ IF Abs(main.current_system_volume - target_volume) < Epsilon
       THEN UNCHANGED <<fades, fade_thread>>
       ELSE /\ fades' = Append(fades, NewFade(main.current_system_volume,
                                              target_volume))
            /\ fade_thread' = Len(fades) + 1
    /\ main' = IdleMain
    /\ UNCHANGED <<device, original_volume, target_volume, current_volume,
                   user_basketball_volume, volume_reduction_factor,
                   is_basketball, is_transitioning, running, mon, nAdjust,
                   nFail>>
    /\ UNCHANGED <<lim, app>>

UpdateClassification ==
    \/ UCCall \/ UCReturn \/ UCRead \/ UCState \/ UCRestore
    \/ UCTest \/ UCSave \/ UCReduce \/ UCFloor \/ UCFade

----------------------------------------------------------------------------
(* restore_volume, lines 190-200, on the main thread *)

\* line 193
RVCall ==
    /\ main.pc = "idle"
    /\ running' = FALSE
    /\ main' = [IdleMain EXCEPT !.pc = "rv_join"]
    /\ UNCHANGED <<device, original_volume, target_volume, current_volume,
                   user_basketball_volume, volume_reduction_factor,
                   is_basketball, is_transitioning, fade_thread, fades, mon,
                   nAdjust, nFail>>
    /\ UNCHANGED <<lim, app>>

\* lines 196-197: join(timeout=0.5) returns when the fade thread has
\* returned or when the timeout has passed, whichever is first
RVJoin ==
    /\ main.pc = "rv_join"
    /\ main' = [main EXCEPT !.pc = "rv_set"]
    /\ UNCHANGED <<device, original_volume, target_volume, current_volume,
                   user_basketball_volume, volume_reduction_factor,
                   is_basketball, is_transitioning, running, fade_thread,
                   fades, mon, nAdjust, nFail>>
    /\ UNCHANGED <<lim, app>>

\* line 200
RVSet ==
    /\ main.pc = "rv_set"
    /\ \E ok \in BOOLEAN : SetVolume(original_volume, ok)
    /\ main' = IdleMain
    /\ UNCHANGED <<original_volume, target_volume, user_basketball_volume,
                   volume_reduction_factor, is_basketball, is_transitioning,
                   running, fade_thread, fades, mon, nAdjust>>
    /\ UNCHANGED <<lim, app>>

RestoreVolume == RVCall \/ RVJoin \/ RVSet

\* set_volume_reduction, lines 206-208
SetVolumeReduction ==
    /\ main.pc = "idle"
    /\ \E x \in ReductionInputs :
          /\ ReductionValue(x) # volume_reduction_factor
          /\ volume_reduction_factor' = ReductionValue(x)
    /\ UNCHANGED <<device, original_volume, target_volume, current_volume,
                   user_basketball_volume, is_basketball, is_transitioning,
                   running, fade_thread, fades, mon, main, nAdjust, nFail>>
    /\ UNCHANGED <<lim, app>>

----------------------------------------------------------------------------
Next ==
    \/ UserAdjust
    \/ Monitor
    \/ \E i \in FadeIds : Fade(i)
    \/ UpdateClassification
    \/ RestoreVolume
    \/ SetVolumeReduction

Spec == Init /\ [][Next]_vars

\* Runs of Overlap alone
InitOverlap == InitWith(Overlap)
SpecOverlap == InitOverlap /\ [][Next]_vars
InitDisturbed == InitWith(Disturbed)
SpecDisturbed == InitDisturbed /\ [][Next]_vars

\* Runs in which a transition is requested only when no fade is in flight,
\* without shutdown, user adjustment or failed device call.  The scheduler
\* lets every started thread run.
SoloCall == AllFadesDone /\ UCCall

NextSolo ==
    \/ Monitor
    \/ \E i \in FadeIds : Fade(i)
    \/ SoloCall
    \/ UCReturn \/ UCRead \/ UCState \/ UCRestore
    \/ UCTest \/ UCSave \/ UCReduce \/ UCFloor \/ UCFade
    \/ SetVolumeReduction

FairSolo ==
    /\ InitOverlap
    /\ [][NextSolo]_vars
    /\ WF_vars(\E i \in FadeIds : Fade(i))

\* Runs with shutdown, without user adjustment or failed device call.  The
\* scheduler lets the monitor thread and every fade thread run.
NextStop ==
    \/ Monitor
    \/ \E i \in FadeIds : Fade(i)
    \/ UpdateClassification
    \/ RestoreVolume

FairStop ==
    /\ InitOverlap
    /\ [][NextStop]_vars
    /\ WF_vars(Monitor)
    /\ \A i \in 1..MaxFades : WF_vars(i \in FadeIds /\ Fade(i))

----------------------------------------------------------------------------
(* BasketballClassifierApp: the run_inference threads and the handlers of   *)
(* the main thread.  A handler starts when the main thread is idle; while   *)
(* it is inside update_classification or restore_volume the events queued   *)
(* for it wait.                                                             *)

\* the controller's fields a handler of the application leaves alone
AppFrame == <<device, original_volume, target_volume, current_volume,
              user_basketball_volume, volume_reduction_factor, is_basketball,
              is_transitioning, fade_thread, fades, mon, nAdjust, nFail>>

\* the results of run_inference that have not reached update_prediction
Pending == app.inference + Len(app.queue)

\* the call of update_classification(is_basketball, confidence) and lines
\* 121-122, as in UCCall.  In the runs without overlap the call comes when
\* the fade threads started before have returned.
EnterUpdateClassification(b, confidence) ==
    /\ Len(fades) < lim.fades
    /\ lim.overlap \/ AllFadesDone
    /\ main' = IF SameClassification(is_basketball, b)
               THEN [IdleMain EXCEPT !.pc = "uc_return", !.is_basketball = b]
               ELSE [IdleMain EXCEPT !.pc = "uc_read", !.is_basketball = b,
                                     !.confidence = confidence]
    /\ UNCHANGED running

\* the call of restore_volume() and line 193, as in RVCall
EnterRestoreVolume ==
    /\ running' = FALSE
    /\ main' = [IdleMain EXCEPT !.pc = "rv_join"]

\* ClassifierOverlay.update_prediction, overlay.py lines 255-271, called
\* with the consensus and consensus_confidence / 100.0: the percentage of
\* confidence_label
OverlayPercent(prediction, confidence) ==
    IF prediction = "True" THEN confidence
    ELSE Fraction(100 * confidence.den - confidence.num, confidence.den)

\* process_frame, lines 513-585, on the timer of the running capture: a
\* frame whose scene changed gets a run_inference thread (lines 579-581)
ProcessFrame ==
    /\ main.pc = "idle"
    /\ app.running
    /\ Pending < lim.inference
    /\ app' = [app EXCEPT !.inference = app.inference + 1]
    /\ UNCHANGED AppFrame
    /\ UNCHANGED <<running, main, lim>>

\* run_inference, lines 590-622, on its thread: the model's pred_value and
\* the queued call of update_prediction
RunInference ==
    /\ app.inference > 0
    /\ \E pred_value \in lim.predictions :
          app' = [app EXCEPT !.inference = app.inference - 1,
                             !.queue = Append(app.queue, Sample(pred_value))]
    /\ UNCHANGED AppFrame
    /\ UNCHANGED <<running, main, lim>>

\* update_prediction run by a thread that does not wait for the main thread
UpdatePredictionDirect ==
    /\ app.queue # <<>>
    /\ LET sample == Head(app.queue)
           h == Trim(Insert(app.prediction_history, sample))
           prev_consensus == app.consensus_prediction
           consensus == CalculateConsensus(h)
       IN  /\ app' = [app EXCEPT
                         !.queue = Tail(app.queue),
                         !.prediction_history = h,
                         !.consensus_prediction = consensus.prediction,
                         !.consensus_confidence = consensus.confidence,
                         !.confidence_trend =
                             GetConfidenceTrend(h, consensus.prediction),
                         !.overlay_prediction =
                             IF app.overlay_mode THEN consensus.prediction ELSE @,
                         !.overlay_confidence =
                             IF app.overlay_mode
                             THEN OverlayPercent(consensus.prediction,
                                                 consensus.confidence)
                             ELSE @]
           /\ IF /\ app.volume_control_enabled
                 /\ consensus.prediction # "None"
                 /\ (prev_consensus # consensus.prediction
                     \/ prev_consensus = "None")
              THEN EnterUpdateClassification(consensus.prediction = "True",
                                             Percent(consensus.confidence))
              ELSE UNCHANGED <<running, main>>
    /\ UNCHANGED AppFrame
    /\ UNCHANGED lim

\* update_prediction, lines 624-717, the slot the main thread runs for the
\* oldest queued call.  Lines 699-706 enter update_classification with the
\* consensus and the whole percents of its confidence when volume control
\* is enabled and the consensus has changed; lines 708-717 update the
\* overlay in overlay mode.
UpdatePrediction ==
    /\ main.pc = "idle"
    /\ app.queue # <<>>
    /\ LET sample == Head(app.queue)
           h == Trim(Insert(app.prediction_history, sample))
           prev_consensus == app.consensus_prediction
           consensus == CalculateConsensus(h)
       IN  /\ app' = [app EXCEPT
                         !.queue = Tail(app.queue),
                         !.prediction_history = h,
                         !.consensus_prediction = consensus.prediction,
                         !.consensus_confidence = consensus.confidence,
                         !.confidence_trend =
                             GetConfidenceTrend(h, consensus.prediction),
                         !.overlay_prediction =
                             IF app.overlay_mode THEN consensus.prediction ELSE @,
                         !.overlay_confidence =
                             IF app.overlay_mode
                             THEN OverlayPercent(consensus.prediction,
                                                 consensus.confidence)
                             ELSE @]
           /\ IF /\ app.volume_control_enabled
                 /\ consensus.prediction # "None"
                 /\ (prev_consensus # consensus.prediction
                     \/ prev_consensus = "None")
              THEN EnterUpdateClassification(consensus.prediction = "True",
                                             Percent(consensus.confidence))
              ELSE UNCHANGED <<running, main>>
    /\ UNCHANGED AppFrame
    /\ UNCHANGED lim

\* toggle_capture, lines 330-380: the start resets the history and the
\* consensus (lines 340-343) and runs the inference of the first frame on
\* the main thread (lines 355, 496-498), which queues its call of
\* update_prediction; the stop clears consensus_label and enters
\* restore_volume when volume control is enabled (lines 379-380).
ToggleCapture ==
    /\ main.pc = "idle"
    /\ IF ~app.running
       THEN /\ Pending < lim.inference
            /\ \E pred_value \in lim.predictions :
                  app' = [app EXCEPT !.running = TRUE,
                                     !.prediction_history = <<>>,
                                     !.consensus_prediction = "None",
                                     !.consensus_confidence = Fraction(0, 1),
                                     !.queue = Append(app.queue, Sample(pred_value))]
            /\ UNCHANGED <<running, main>>
       ELSE /\ app' = [app EXCEPT !.running = FALSE,
                                  !.confidence_trend = "none"]
            /\ IF app.volume_control_enabled
               THEN EnterRestoreVolume
               ELSE UNCHANGED <<running, main>>
    /\ UNCHANGED AppFrame
    /\ UNCHANGED lim

\* toggle_volume_control without the call of lines 270-274: enabling leaves
\* the controller as it is
ToggleVolumeControlSilent ==
    /\ main.pc = "idle"
    /\ app' = [app EXCEPT !.volume_control_enabled = ~app.volume_control_enabled]
    /\ IF ~app.volume_control_enabled
       THEN UNCHANGED <<running, main>>
       ELSE EnterRestoreVolume
    /\ UNCHANGED AppFrame
    /\ UNCHANGED lim

\* toggle_volume_control, lines 264-278, on a click of the checkbox
ToggleVolumeControl ==
    /\ main.pc = "idle"
    /\ app' = [app EXCEPT !.volume_control_enabled = ~app.volume_control_enabled]
    /\ IF ~app.volume_control_enabled
       THEN IF app.consensus_prediction # "None"
            THEN EnterUpdateClassification(app.consensus_prediction = "True",
                                           Percent(app.consensus_confidence))
            ELSE UNCHANGED <<running, main>>
       ELSE EnterRestoreVolume
    /\ UNCHANGED AppFrame
    /\ UNCHANGED lim

\* toggle_overlay_mode and exit_overlay_mode, lines 719-746
ToggleOverlayMode ==
    /\ main.pc = "idle"
    /\ app' = [app EXCEPT !.overlay_mode = ~app.overlay_mode]
    /\ UNCHANGED AppFrame
    /\ UNCHANGED <<running, main, lim>>

\* The application with volume control switched off: the state a constructed
\* application is in when toggle_volume_control(False), lines 264-278, has
\* returned and the monitor thread has seen running cleared.  No handler
\* calls the controller from here on.
InitQuiet(l) ==
    /\ lim = l
    /\ device \in InitLevels
    /\ original_volume = device
    /\ target_volume = device
    /\ current_volume = device
    /\ user_basketball_volume = device
    /\ volume_reduction_factor = DefaultReduction
    /\ is_basketball = TRUE
    /\ is_transitioning = FALSE
    /\ running = FALSE
    /\ fade_thread = 0
    /\ fades = <<>>
    /\ mon = [pc |-> "done", last_checked_volume |-> device, current_vol |-> 0]
    /\ main = IdleMain
    /\ nAdjust = 0
    /\ nFail = 0
    /\ app = [AppInit EXCEPT !.volume_control_enabled = FALSE]

\* Runs of the consensus engine alone, over every pred_value of the model
ConsensusRun == [fades |-> 0, adjust |-> 0, fail |-> 0, overlap |-> FALSE,
                 inference |-> MaxInference - 1, predictions |-> Predictions]

InitConsensus == InitQuiet(ConsensusRun)

NextConsensus == ProcessFrame \/ RunInference \/ UpdatePrediction \/ ToggleCapture

SpecConsensus == InitConsensus /\ [][NextConsensus]_vars

\* Runs of the consensus engine with the overlay
OverlayRun == [fades |-> 0, adjust |-> 0, fail |-> 0, overlap |-> FALSE,
               inference |-> MaxInference - 1, predictions |-> AppPredictions]

InitOverlay == InitQuiet(OverlayRun)

NextOverlay ==
    \/ ProcessFrame \/ RunInference \/ UpdatePrediction \/ ToggleCapture
    \/ ToggleOverlayMode

SpecOverlay == InitOverlay /\ [][NextOverlay]_vars

\* Runs of the application with the controller at work: the handlers call
\* update_classification and restore_volume, whose steps and the monitor
\* and fade threads interleave with the run_inference threads.  AppRun has
\* MaxFades transitions, one after the other, and AppBurst has MaxInference
\* results in flight.
AppRun == [fades |-> MaxFades, adjust |-> 0, fail |-> 0, overlap |-> FALSE,
           inference |-> MaxInference - 1, predictions |-> AppPredictions]

AppBurst == [fades |-> MaxFades - 1, adjust |-> 0, fail |-> 0, overlap |-> TRUE,
             inference |-> MaxInference, predictions |-> AppPredictions]

InitApp == InitWith(AppRun) \/ InitWith(AppBurst)

NextApp ==
    \/ ProcessFrame \/ RunInference \/ UpdatePrediction \/ ToggleCapture
    \/ ToggleVolumeControl
    \/ Monitor
    \/ \E i \in FadeIds : Fade(i)
    \/ UCReturn \/ UCRead \/ UCState \/ UCRestore
    \/ UCTest \/ UCSave \/ UCReduce \/ UCFloor \/ UCFade
    \/ RVJoin \/ RVSet

SpecApp == InitApp /\ [][NextApp]_vars

----------------------------------------------------------------------------
(* Properties *)

NoDisturbance == nAdjust = 0 /\ nFail = 0

\* the fade threads that have begun fade_volume and not yet returned
ActiveFades == {i \in FadeIds : fades[i].pc \notin {"new", "done"}}

\* C1: after restore_volume has returned and the monitor and every fade
\* thread have stopped, the device is at original_volume (no user adjustment
\* and no failed device call in the run).
C1_RestoredAfterShutdown ==
    (/\ ~running
     /\ main.pc = "idle"
     /\ mon.pc = "done"
     /\ AllFadesDone
     /\ NoDisturbance)
    => device = original_volume

\* what a call of update_classification with the current value must leave alone
C2Frame == <<is_basketball, target_volume, user_basketball_volume,
             is_transitioning, device, fades, fade_thread>>

\* C2: a call of update_classification with is_basketball equal to the
\* controller's is_basketball goes straight to the return of line 122, and
\* neither the call nor the return starts a fade or changes is_basketball,
\* target_volume, user_basketball_volume, is_transitioning or the device.
C2_SameClassificationNoOp ==
    [][/\ (/\ main.pc = "idle"
           /\ main'.pc \in {"uc_return", "uc_read"}
           /\ main'.is_basketball = is_basketball)
          => (main'.pc = "uc_return" /\ UNCHANGED C2Frame)
       /\ (main.pc = "uc_return" /\ main' # main)
          => (main'.pc = "idle" /\ UNCHANGED C2Frame)]_vars

\* C2 witness: a call with the current value while a fade started by an
\* earlier call is in flight
C2_Witness ==
    /\ main.pc = "uc_return"
    /\ ~is_basketball
    /\ \E i \in FadeIds : fades[i].pc = "write"

\* C3: the step of line 166 of a Positive-to-Negative change sets
\* target_volume to max(baseline * factor * min(1, confidence/100),
\* baseline * 0.1) for the baseline user_basketball_volume, so the target is
\* at least a tenth of the baseline and at most the baseline.
C3_ReducedTarget ==
    [][(main.pc = "uc_floor" /\ main'.pc = "uc_fade")
       => LET ubv == user_basketball_volume'
              cf == IF main.confidence < 100 THEN main.confidence ELSE 100
              reduced == (ubv * volume_reduction_factor * cf) \div (Scale * 100)
              floor == ubv \div 10
          IN /\ target_volume' = IF reduced > floor THEN reduced ELSE floor
             /\ target_volume' >= floor
             /\ target_volume' <= ubv]_vars

\* C4: in a run without user adjustment (and without a failed device call),
\* every entry into Positive from Negative sets target_volume to the level
\* the device had when the controller first left Positive, which is the
\* level the run started with.
C4_RestoresFirstBaseline ==
    [][(main.pc = "uc_restore" /\ main'.pc = "uc_fade" /\ NoDisturbance)
       => target_volume' = original_volume]_vars

\* C5: in a run where each transition is requested with no fade in flight
\* and nothing disturbs it, the first write of the fade is the start level,
\* every write moves the device toward the target without passing it, the
\* write of line 114 is the target itself, and the fade leads to a state
\* where the device is at target_volume and is_transitioning is false.
C5_FadeReachesTarget ==
    /\ [][\A i \in FadeIds :
            (fades[i].pc \in {"write", "finalwrite"} /\ fades'[i] # fades[i])
            => LET s == fades[i].start_vol
                   e == fades[i].end_vol
               IN /\ e = target_volume
                  /\ (fades[i].pc = "write" /\ fades[i].k = 0) => device' = s
                  /\ fades[i].pc = "finalwrite" => device' = e
                  /\ s <= e => (device <= device' /\ device' <= e)
                  /\ s >= e => (device >= device' /\ device' >= e)]_vars
    /\ (\E i \in FadeIds : fades[i].pc # "done")
          ~> (AllFadesDone /\ device = target_volume /\ ~is_transitioning)

\* C5 witness: a fade has run to its end and left the device at a target
\* other than the level the run started with
C5_Witness ==
    /\ Len(fades) >= 1
    /\ AllFadesDone
    /\ ~is_transitioning
    /\ device = target_volume
    /\ device # original_volume

\* C6: at most one fade thread is between its start and its exit.
C6_AtMostOneFade == Cardinality(ActiveFades) <= 1

\* C7: the monitor reads the level it stores into user_basketball_volume
\* only while is_basketball is true and no fade is requested or running.
C7_MonitorReadsOnlyWhenPositiveAndIdle ==
    [][(mon.pc = "read" /\ mon'.pc = "store")
       => (is_basketball /\ AllFadesDone)]_vars

\* C8: once every fade thread has returned, with no shutdown, no user
\* adjustment and no failed device call, the device is at the target of the
\* most recent request.
C8_LastRequestWins ==
    (/\ running
     /\ main.pc = "idle"
     /\ Len(fades) >= 2
     /\ AllFadesDone
     /\ NoDisturbance)
    => device = target_volume

\* C9: once running is false, a state is reached in which the monitor
\* thread and every fade thread have stopped and is_transitioning is false,
\* and no fade thread makes more than one device write after running was
\* cleared.
C9_ShutdownStopsThreads ==
    /\ [](\A i \in FadeIds : fades[i].late <= 1)
    /\ (~running) ~> (mon.pc = "done" /\ AllFadesDone /\ ~is_transitioning)

\* C9 witness: two fades are in flight after running was cleared and one of
\* them has made its one late write
C9_Witness ==
    /\ ~running
    /\ Len(fades) = 2
    /\ fades[1].pc # "done" /\ fades[2].pc # "done"
    /\ fades[1].late = 1

Levels == 0..Scale

\* C10: original_volume, target_volume, current_volume,
\* user_basketball_volume and the level of the device lie in [0, 1].
C10_LevelsInRange ==
    /\ original_volume \in Levels
    /\ target_volume \in Levels
    /\ current_volume \in Levels
    /\ user_basketball_volume \in Levels
    /\ device \in Levels

\* C10 witness: a reduction factor given as 1.5 was clamped to 1.0 and a
\* Positive-to-Negative change took the whole baseline as its target
C10_Witness ==
    /\ volume_reduction_factor = Scale
    /\ ~is_basketball
    /\ main.pc = "uc_fade"
    /\ target_volume = user_basketball_volume
    /\ target_volume = Scale

\* C11: a device write that fails in a step of a fade thread changes neither
\* the device nor current_volume, and the thread goes on as after a write
\* that succeeded: from the loop to its next element (or to line 113 after
\* the last one), from the write of line 114 to line 116.
C11_FailedWriteIsNoOp ==
    [][\A i \in FadeIds :
          (/\ i \in DOMAIN fades'
           /\ fades[i].pc \in {"write", "finalwrite"}
           /\ fades'[i].pc # fades[i].pc
           /\ nFail' = nFail + 1)
          => /\ device' = device
             /\ current_volume' = current_volume
             /\ IF fades[i].pc = "write"
                THEN /\ fades'[i].k = fades[i].k + 1
                     /\ fades'[i].pc = IF fades[i].k + 1 < FadeSteps
                                       THEN "loop" ELSE "final"
                ELSE fades'[i].pc = "clear"]_vars

\* the second write of the only fade failed (the device was not set to the
\* second element of volume_steps) and the thread is at its third element
C11_Witness ==
    /\ Len(fades) = 1
    /\ fades[1].pc = "loop"
    /\ fades[1].k = 2
    /\ running
    /\ nAdjust = 0
    /\ nFail = 1
    /\ device # Linspace(fades[1].start_vol, fades[1].end_vol, FadeSteps, 1)

\* the levels the controller holds from its earlier reads and writes
LastKnownLevels == {current_volume, user_basketball_volume}

\* C12: a get_volume that fails in a monitor tick (line 78) or in
\* update_classification (line 125) gives its caller a level the controller
\* already holds, so that the stores that follow leave
\* user_basketball_volume, current_volume and target_volume at their
\* last-known values.
C12_FailedReadKeepsLastKnown ==
    [][(nFail' = nFail + 1)
       => /\ (mon.pc = "read" /\ mon'.pc = "store")
                => mon'.current_vol \in LastKnownLevels
          /\ (main.pc = "uc_read" /\ main'.pc = "uc_state")
                => main'.current_system_volume \in LastKnownLevels]_vars

\* C13: calculate_consensus gives (None, 0.0) for the empty history and a
\* boolean label for every other history, so that consensus_prediction is
\* None exactly when prediction_history is empty, that is when no sample
\* has been added since construction or the last reset of toggle_capture.
C13_NoneIffEmptyHistory ==
    /\ (app.consensus_prediction = "None") <=> (app.prediction_history = <<>>)
    /\ app.consensus_prediction \in {"None", "True", "False"}
    /\ app.prediction_history = <<>>
          => app.consensus_confidence = Fraction(0, 1)
    /\ (CalculateConsensus(app.prediction_history).prediction = "None")
          <=> (app.prediction_history = <<>>)

\* capture was started again after samples had been processed
C13_Witness ==
    /\ app.running
    /\ app.prediction_history = <<>>
    /\ app.consensus_prediction = "None"
    /\ app.confidence_trend # "none"

\* C14: prediction_history never has more than HISTORY_SIZE entries, and a
\* step of update_prediction puts the new sample at entry 0 and keeps the
\* previous entries behind it in their order, the oldest one dropped when
\* the history was full.
C14_NewestFirstBounded ==
    /\ [](Len(app.prediction_history) <= HISTORY_SIZE)
    /\ [][Len(app'.queue) < Len(app.queue)
          => LET old == app.prediction_history
                 new == app'.prediction_history
             IN  /\ Len(new) = Min(Len(old) + 1, HISTORY_SIZE)
                 /\ new[1] = Head(app.queue)
                 /\ new[1] \in Samples
                 /\ \A j \in 2..Len(new) : new[j] = old[j - 1]]_<<app>>

\* the history is full and its four samples differ from their neighbours
C14_Witness ==
    /\ Len(app.prediction_history) = HISTORY_SIZE
    /\ \A j \in 2..HISTORY_SIZE :
          app.prediction_history[j] # app.prediction_history[j - 1]

\* the sum of f over the finite set S of its arguments
RECURSIVE Sum(_, _)
Sum(f, S) ==
    IF S = {} THEN 0
    ELSE LET x == CHOOSE y \in S : TRUE IN f[x] + Sum(f, S \ {x})

\* the rule of the specification over the stored history: the weight of
\* entry j (index j - 1, 0 the newest), in units of 0.0001
RuleWeight(j) ==
    Max(50, 100 - 15 * (j - 1))
    * (50 + 2 * Abs(app.prediction_history[j].confidence - 50))

\* the entries of the stored history with label cls
RuleEntries(cls) ==
    {j \in 1..Len(app.prediction_history) :
        app.prediction_history[j].is_basketball = cls}

\* the weighted count of class cls
RuleCount(cls) == Sum([j \in RuleEntries(cls) |-> RuleWeight(j)], RuleEntries(cls))

\* the normalized confidence of class cls as a percentage: the weighted mean,
\* over the class's entries, of the probability the entry gives its class
RuleConfidence(cls) ==
    IF RuleCount(cls) = 0 THEN Fraction(0, 1)
    ELSE Fraction(Sum([j \in RuleEntries(cls) |->
                          RuleWeight(j)
                          * (IF cls THEN app.prediction_history[j].confidence
                             ELSE 100 - app.prediction_history[j].confidence)],
                      RuleEntries(cls)),
                  RuleCount(cls))

\* the stored consensus is class cls with that class's normalized confidence
RuleResult(cls) ==
    /\ app.consensus_prediction = Label(cls)
    /\ SameValue(app.consensus_confidence, RuleConfidence(cls))

\* neither weighted count exceeds 1.1 times the other
RuleNearTie ==
    /\ ~(10 * RuleCount(TRUE) > 11 * RuleCount(FALSE))
    /\ ~(10 * RuleCount(FALSE) > 11 * RuleCount(TRUE))

\* C15: for a non-empty history the stored consensus follows the decision
\* rule over the weights max(0.5, 1 - 0.15 i) * (0.5 + 2 |conf - 0.5|):
\* positive when the positive weighted count exceeds 1.1 times the negative
\* one, negative when the negative one exceeds 1.1 times the positive one,
\* otherwise the class with the higher normalized confidence; the stored
\* confidence is that class's normalized confidence times 100.
C15_DecisionRule ==
    app.prediction_history # <<>>
    => /\ 10 * RuleCount(TRUE) > 11 * RuleCount(FALSE) => RuleResult(TRUE)
       /\ 10 * RuleCount(FALSE) > 11 * RuleCount(TRUE) => RuleResult(FALSE)
       /\ RuleNearTie
            => /\ Greater(RuleConfidence(TRUE), RuleConfidence(FALSE))
                    => RuleResult(TRUE)
               /\ Greater(RuleConfidence(FALSE), RuleConfidence(TRUE))
                    => RuleResult(FALSE)
               /\ RuleResult(TRUE) \/ RuleResult(FALSE)

\* a full history of both classes that the near-tie branch decides
C15_Witness ==
    /\ Len(app.prediction_history) = HISTORY_SIZE
    /\ RuleEntries(TRUE) # {}
    /\ RuleEntries(FALSE) # {}
    /\ RuleNearTie
    /\ Greater(RuleConfidence(TRUE), RuleConfidence(FALSE))
    /\ app.consensus_prediction = "True"

\* the stored history has as many positive as negative samples
EqualRawCounts ==
    /\ app.prediction_history # <<>>
    /\ Cardinality(RuleEntries(TRUE)) = Cardinality(RuleEntries(FALSE))

\* the orders in which the samples of h can stand
Orders(h) ==
    {p \in [1..Len(h) -> 1..Len(h)] : \A i, j \in 1..Len(h) : p[i] = p[j] => i = j}

\* h with its samples in the order p
Reorder(h, p) == [j \in 1..Len(h) |-> h[p[j]]]

\* the history of the specification's example
C16Example ==
    <<[is_basketball |-> TRUE, confidence |-> 90],
      [is_basketball |-> FALSE, confidence |-> 90],
      [is_basketball |-> TRUE, confidence |-> 90],
      [is_basketball |-> FALSE, confidence |-> 90]>>

\* C16 as the specification states it: with equal raw counts the consensus
\* is the class with the higher normalized confidence, and the label is the
\* same for every order of the samples.
C16_EqualCountsByConfidenceAnyOrder ==
    EqualRawCounts
    => /\ Greater(RuleConfidence(TRUE), RuleConfidence(FALSE))
            => app.consensus_prediction = "True"
       /\ Greater(RuleConfidence(FALSE), RuleConfidence(TRUE))
            => app.consensus_prediction = "False"
       /\ \A p \in Orders(app.prediction_history) :
             CalculateConsensus(Reorder(app.prediction_history, p)).prediction
                = app.consensus_prediction

\* C16, amended: with equal raw counts the consensus is the class with the
\* higher normalized confidence when neither weighted count exceeds 1.1
\* times the other; a class whose weighted count exceeds 1.1 times the
\* other's is the consensus whatever the confidences, so the label follows
\* the order of the samples.  The example's history gives (True, 90).
C16_EqualCountsNearTieByConfidence ==
    /\ EqualRawCounts
       => /\ 10 * RuleCount(TRUE) > 11 * RuleCount(FALSE)
               => app.consensus_prediction = "True"
          /\ 10 * RuleCount(FALSE) > 11 * RuleCount(TRUE)
               => app.consensus_prediction = "False"
          /\ RuleNearTie
               => /\ Greater(RuleConfidence(TRUE), RuleConfidence(FALSE))
                       => app.consensus_prediction = "True"
                  /\ Greater(RuleConfidence(FALSE), RuleConfidence(TRUE))
                       => app.consensus_prediction = "False"
    /\ CalculateConsensus(C16Example).prediction = "True"
    /\ SameValue(CalculateConsensus(C16Example).confidence, Fraction(90, 1))

\* two samples of each class that the near-tie branch decides for the
\* negative class
C16_Witness ==
    /\ Len(app.prediction_history) = HISTORY_SIZE
    /\ EqualRawCounts
    /\ RuleNearTie
    /\ Greater(RuleConfidence(FALSE), RuleConfidence(TRUE))
    /\ app.consensus_prediction = "False"

OneAgainstThree(h, sample) ==
    /\ Len(h) >= 3
    /\ \A j \in 1..3 : h[j].is_basketball # sample.is_basketball

\* the distance of a sample's confidence from the threshold 0.5
Certainty(sample) == Abs(sample.confidence - 50)

\* C18 as the specification states it: when the three previous samples
\* belong to one class, a step of update_prediction with a sample of the
\* other class leaves the consensus label as it was, whatever the
\* confidences.
C18_SingleFrameNeverFlips ==
    [][(/\ app'.running = app.running
        /\ OneAgainstThree(app.prediction_history, app'.prediction_history[1]))
       => app'.consensus_prediction = app.consensus_prediction]_<<app>>

\* C18, amended: the consensus label stays as it was when none of the three
\* previous samples is less certain than the new sample of the other class.
C18_SingleFrameAmongCertainOnes ==
    [][(/\ app'.running = app.running
        /\ OneAgainstThree(app.prediction_history, app'.prediction_history[1])
        /\ \A j \in 1..3 :
              Certainty(app.prediction_history[j])
                 >= Certainty(app'.prediction_history[1]))
       => app'.consensus_prediction = app.consensus_prediction]_<<app>>

\* a positive sample was added to three negative ones that are as certain
\* as it or more, and the consensus is negative
C18_Witness ==
    /\ Len(app.prediction_history) = HISTORY_SIZE
    /\ app.prediction_history[1].is_basketball
    /\ \A j \in 2..HISTORY_SIZE :
          /\ ~app.prediction_history[j].is_basketball
          /\ Certainty(app.prediction_history[j])
                >= Certainty(app.prediction_history[1])
    /\ app.consensus_prediction = "False"

\* consensus_label shows the indicator update_prediction computed for the
\* stored history
TrendShown ==
    /\ app.prediction_history # <<>>
    /\ app.confidence_trend # "none"

\* the indicator for a difference of two confidences, in hundredths
TrendOf(diff) ==
    IF Abs(diff) < 5 THEN "stable"
    ELSE IF diff > 0 THEN "increasing" ELSE "decreasing"

\* entry j of the stored history agrees with the stored consensus
Agrees(j) ==
    Label(app.prediction_history[j].is_basketball) = app.consensus_prediction

\* C20 as the specification states it: the indicator is "stable" for fewer
\* than two samples, and otherwise that of the newest minus the
\* second-newest confidence, a sample that disagrees with the consensus
\* contributing its negated confidence.
C20_TrendWithNegatedConfidence ==
    TrendShown
    => app.confidence_trend =
          IF Len(app.prediction_history) < 2 THEN "stable"
          ELSE TrendOf((IF Agrees(1) THEN app.prediction_history[1].confidence
                        ELSE - app.prediction_history[1].confidence)
                       - (IF Agrees(2) THEN app.prediction_history[2].confidence
                          ELSE - app.prediction_history[2].confidence))

\* C20, amended: a sample that disagrees with the consensus contributes one
\* minus its confidence; the rest is as stated, and [(true,0.9),(true,0.6)]
\* with consensus true gives "increasing".
C20_TrendWithComplementConfidence ==
    /\ TrendShown
       => app.confidence_trend =
             IF Len(app.prediction_history) < 2 THEN "stable"
             ELSE TrendOf((IF Agrees(1) THEN app.prediction_history[1].confidence
                           ELSE 100 - app.prediction_history[1].confidence)
                          - (IF Agrees(2) THEN app.prediction_history[2].confidence
                             ELSE 100 - app.prediction_history[2].confidence))
    /\ GetConfidenceTrend(<<Sample(90), Sample(60)>>, "True") = "increasing"

\* the newest sample disagrees with the consensus and the indicator shows
\* a rise
C20_Witness ==
    /\ TrendShown
    /\ Len(app.prediction_history) >= 2
    /\ ~Agrees(1)
    /\ Agrees(2)
    /\ app.confidence_trend = "increasing"

\* C21: no step of any thread changes original_volume after construction.
C21_OriginalVolumeFixed == [][original_volume' = original_volume]_vars

\* a fade has run, a monitor tick has stored a level the user set, the
\* reduction factor was changed and restore_volume has returned
C21_Witness ==
    /\ ~running
    /\ main.pc = "idle"
    /\ Len(fades) = 1
    /\ AllFadesDone
    /\ nAdjust = 1
    /\ user_basketball_volume # original_volume
    /\ volume_reduction_factor # DefaultReduction

\* C22: is_transitioning is set while some fade thread is between line 99
\* and line 116, and clear when every fade thread that was started has
\* returned.
C22_TransitioningWhileFading ==
    /\ ActiveFades # {} => is_transitioning
    /\ (fades # <<>> /\ AllFadesDone) => ~is_transitioning

\* C24: when update_classification reaches line 170 with the target less
\* than 0.01 from the level it read, it returns without starting a fade
\* thread and without a device write, and is_basketball is the value the
\* call was made with and target_volume the target it computed.
C24_NoFadeWhenAtTarget ==
    [][(/\ main.pc = "uc_fade"
        /\ main'.pc = "idle"
        /\ Abs(main.current_system_volume - target_volume) < Epsilon)
       => /\ fades' = fades
          /\ fade_thread' = fade_thread
          /\ device' = device
          /\ current_volume' = current_volume
          /\ is_basketball' = main.is_basketball
          /\ target_volume' = target_volume]_vars

\* a change to not-basketball has returned and no fade thread was started
C24_Witness ==
    /\ main.pc = "idle"
    /\ ~is_basketball
    /\ fades = <<>>
    /\ Abs(device - target_volume) < Epsilon

\* C25: on a change to not-basketball, line 160 is reached exactly when
\* is_transitioning is clear at the test of line 159 and stores the level
\* read at line 125; when is_transitioning is set the call leaves
\* user_basketball_volume alone, and line 165 computes the reduced level
\* from user_basketball_volume.
C25_BaselineSavedUnlessTransitioning ==
    [][/\ (main.pc = "uc_test" /\ main'.pc # "uc_test")
            => /\ main'.pc = IF is_transitioning THEN "uc_reduce" ELSE "uc_save"
               /\ user_basketball_volume' = user_basketball_volume
       /\ (main.pc = "uc_save" /\ main'.pc # "uc_save")
            => /\ user_basketball_volume' = main.current_system_volume
               /\ main'.pc = "uc_reduce"
       /\ (main.pc = "uc_reduce" /\ main'.pc # "uc_reduce")
            => /\ user_basketball_volume' = user_basketball_volume
               /\ main'.reduced_volume =
                     ReducedVolume(user_basketball_volume,
                                   volume_reduction_factor,
                                   ConfidenceFactor(main.confidence))]_vars

\* a change to not-basketball is at line 165 during a fade, and the level
\* it read was not stored as the baseline
C25_Witness ==
    /\ main.pc = "uc_reduce"
    /\ is_transitioning
    /\ ActiveFades # {}
    /\ mon.pc # "store"
    /\ main.current_system_volume # user_basketball_volume

\* C23: inference results are applied to the consensus state one at a time.
\* prediction_history and consensus_prediction change only in a step the
\* main thread takes when it is idle, that is when no update_prediction (nor
\* the update_classification it calls) is in execution, and a step applies
\* at most one queued result, although several run_inference threads may
\* have results in flight.
C23_UpdatePredictionOneAtATime ==
    [][/\ (\/ app'.prediction_history # app.prediction_history
           \/ app'.consensus_prediction # app.consensus_prediction)
          => main.pc = "idle"
       /\ Len(app'.queue) >= Len(app.queue) - 1
       /\ Len(app'.prediction_history) <= Len(app.prediction_history) + 1]_vars

\* a result waits in the queue, and a run_inference thread is at work, while
\* the main thread is inside the update_classification that update_prediction
\* called for the result before
C23_Witness ==
    /\ main.pc \in {"uc_read", "uc_state", "uc_test", "uc_save", "uc_reduce",
                    "uc_floor", "uc_fade"}
    /\ app.prediction_history # <<>>
    /\ app.queue # <<>>

\* C26: whenever volume control is enabled and consensus_prediction is not
\* None when update_prediction or toggle_volume_control(True) has returned
\* (the main thread is idle again), the controller's is_basketball equals
\* consensus_prediction, whatever the predictions, the starts and stops of
\* the capture and the switches of volume control before.
C26_ControllerFollowsConsensus ==
    (/\ main.pc = "idle"
     /\ app.volume_control_enabled
     /\ app.consensus_prediction # "None")
    => (is_basketball <=> app.consensus_prediction = "True")

\* volume control is enabled, the capture runs, the consensus is negative
\* and the controller has followed it: update_classification has returned
\* after starting its fade
C26_Witness ==
    /\ main.pc = "idle"
    /\ app.running
    /\ app.volume_control_enabled
    /\ app.consensus_prediction = "False"
    /\ ~is_basketball
    /\ fades # <<>>

\* a fade thread that has passed a test of running and has its write ahead
WritePending(f) == f.pc \in {"write", "finalwrite"}

\* C27: running is never set back to true after restore_volume().  Once it
\* is cleared it stays cleared; the monitor, once it has seen it, stays
\* stopped; no fade thread passes a test of running any more, so a fade
\* started by a later update_classification (a thread that is not among
\* fades yet, or has not begun) makes no device write; and the device level
\* changes only by the write of restore_volume itself, by a fade thread that
\* had passed its test before, or by the user.
C27_NoWritesAfterRestore ==
    [][~running =>
         /\ ~running'
         /\ (mon.pc = "done" => mon'.pc = "done")
         /\ \A i \in 1..Len(fades') :
               WritePending(fades'[i])
               => (i \in FadeIds /\ WritePending(fades[i]))
         /\ device' # device
            => \/ main.pc = "rv_set"
               \/ \E i \in FadeIds : WritePending(fades[i]) /\ fades'[i] # fades[i]
               \/ nAdjust' # nAdjust]_vars

\* after restore_volume has returned and the monitor has stopped, a later
\* update_classification(False, ...) has set its target below the device
\* level and started a fade, whose thread has left its loop at the first
\* test of running (line 107) and made no write: the device is still at the
\* restored level
C27_Witness ==
    /\ ~running
    /\ mon.pc = "done"
    /\ main.pc = "idle"
    /\ ~is_basketball
    /\ fade_thread \in FadeIds
    /\ fades[fade_thread].pc = "clear"
    /\ fades[fade_thread].k = 0
    /\ fades[fade_thread].late = 0
    /\ device = original_volume
    /\ target_volume < device

\* C28: for every non-empty history of samples consistent with the
\* classifier threshold (label true iff confidence > 0.5, as run_inference
\* builds them), the consensus confidence lies in [50, 100]; so the
\* confidence factor update_classification computes from it for a negative
\* consensus (line 144) is at least 0.5.
C28_ConsensusConfidenceRange ==
    app.prediction_history # <<>>
    => /\ \A j \in 1..Len(app.prediction_history) :
             app.prediction_history[j].is_basketball
             <=> app.prediction_history[j].confidence > 50
       /\ app.consensus_confidence
          = CalculateConsensus(app.prediction_history).confidence
       /\ ~Greater(Fraction(50, 1), app.consensus_confidence)
       /\ ~Greater(app.consensus_confidence, Fraction(100, 1))
       /\ app.consensus_prediction = "False"
          => ConfidenceFactor(Percent(app.consensus_confidence)) >= 50

\* a full history with samples of both classes and a negative consensus
\* whose confidence is strictly inside the range
C28_Witness ==
    /\ Len(app.prediction_history) = HISTORY_SIZE
    /\ \E j, k \in 1..HISTORY_SIZE :
          /\ app.prediction_history[j].is_basketball
          /\ ~app.prediction_history[k].is_basketball
    /\ app.consensus_prediction = "False"
    /\ Greater(app.consensus_confidence, Fraction(50, 1))
    /\ Greater(Fraction(100, 1), app.consensus_confidence)

\* C29: while the capture is stopped (running is false), prediction_history
\* and consensus_prediction are not modified and update_classification is
\* not entered from update_prediction, even when inference threads started
\* before the stop finish afterwards.
C29_QuietWhileStopped ==
    [][(~app.running /\ ~app'.running)
       => /\ app'.prediction_history = app.prediction_history
          /\ app'.consensus_prediction = app.consensus_prediction
          /\ Len(app'.queue) < Len(app.queue) => main' = main]_vars

\* C30: in overlay mode, for both consensus labels, the confidence
\* percentage the overlay displays after update_prediction equals the
\* consensus confidence percentage computed by calculate_consensus.
C30_OverlayShowsConsensusConfidence ==
    [][(app.overlay_mode /\ Len(app'.queue) < Len(app.queue))
       => /\ app'.overlay_prediction = app'.consensus_prediction
          /\ SameValue(app'.overlay_confidence, app'.consensus_confidence)]_vars

====
